---- MODULE Spec2Model ----
(***************************************************************************)
(* The vehicle ("auto") router of Auto_mieten: src/routers/auto.py.        *)
(*                                                                         *)
(* State: the autos table of the store, the store's id counter, the last   *)
(* request served with its response, and the ORM sessions of update        *)
(* requests that have loaded their row and not yet committed.              *)
(*                                                                         *)
(* Every handler is an operator from (table, id counter, request) to a     *)
(* result [code, body, autos, nextId]; an action serves one request.       *)
(* Optional values (Optional[...] = None) are sets: {} is None, {v} is v.  *)
(* Text is a sequence of one-character strings, so that ilike is computed  *)
(* as the LIKE match it is.                                                *)
(***************************************************************************)
EXTENDS Integers, Sequences, FiniteSets, TLC

VARIABLES autos, nextId, req, resp, sess, commits

vars == <<autos, nextId, req, resp, sess, commits>>

(***************************************************************************)
(* Bounds and domains                                                      *)
(***************************************************************************)
\* Number of vehicles ever created (ids 1..MaxId).
MaxId == 2

\* Query(None, ge=2000, le=datetime.now().year)
JahrMin == 2000
JahrMax == 2026

Roles == {"owner", "customer", "guest"}

\* Ids a request may name: 0 (not positive), the ids in use, one never used.
ReqIds == 0..(MaxId + 1)

Sessions == {1, 2}

(***************************************************************************)
(* Text and LIKE                                                           *)
(***************************************************************************)
\* Case folding of one character, as ILIKE folds it.
LowerChar(c) ==
    CASE c = "B" -> "b"
      [] c = "M" -> "m"
      [] c = "S" -> "s"
      [] c = "X" -> "x"
      [] c = "A" -> "a"
      [] OTHER -> c

Lower(s) == [i \in 1..Len(s) |-> LowerChar(s[i])]

\* SQL LIKE: % matches any run of characters, _ any one character.
RECURSIVE Like(_, _)
Like(s, p) ==
    IF p = <<>> THEN s = <<>>
    ELSE IF Head(p) = "%" THEN Like(s, Tail(p)) \/ (s # <<>> /\ Like(Tail(s), p))
    ELSE IF s = <<>> THEN FALSE
    ELSE (Head(p) = "_" \/ Head(p) = Head(s)) /\ Like(Tail(s), Tail(p))

\* column.ilike(f"%{text}%")
ILikeContains(col, text) == Like(Lower(col), <<"%">> \o Lower(text) \o <<"%">>)

(***************************************************************************)
(* Identity and roles (services.dependencies)                              *)
(***************************************************************************)
owner_required(role) == role = "owner"

owner_or_customer_required(role) == role \in {"owner", "customer"}

(***************************************************************************)
(* The store                                                               *)
(***************************************************************************)
\* db.query(AutoModel).filter(AutoModel.id == auto_id): the rows with that id
Find(db, auto_id) == {a \in db : a.id = auto_id}

Result(code, body, db, nid) == [code |-> code, body |-> body, autos |-> db, nextId |-> nid]

\* raise HTTPException(status_code=code): nothing is committed
Raise(code, db, nid) == Result(code, {}, db, nid)

\* The id the store assigns to an inserted row: never one used before.
NewId(nid) == nid

(***************************************************************************)
(* POST /auto                                                              *)
(***************************************************************************)
create_auto_current_user(role) == owner_required(role)

\* Variant: the comparison written < instead of <=.
create_auto_negative_price(preis) == preis < 0

\* if auto.preis_pro_stunde <= 0
create_auto_invalid_price(preis) == preis <= 0

\* AutoModel(brand=..., model=..., jahr=..., preis_pro_stunde=..., status=...)
AutoModel(auto_id, auto) ==
    [id |-> auto_id, brand |-> auto.brand, model |-> auto.model, jahr |-> auto.jahr,
     preis_pro_stunde |-> auto.preis_pro_stunde, status |-> auto.status]

create_auto(db, nid, role, auto) ==
    IF ~create_auto_current_user(role) THEN Raise(403, db, nid)
    ELSE IF create_auto_invalid_price(auto.preis_pro_stunde) THEN Raise(400, db, nid)
    ELSE LET db_auto == AutoModel(NewId(nid), auto)
         IN Result(201, {db_auto}, db \cup {db_auto}, nid + 1)

(***************************************************************************)
(* GET /autos                                                              *)
(***************************************************************************)
show_all_auto_current_user(role) == owner_required(role)

\* db.query(AutoModel).filter(AutoModel.status.is_(True)).all()
AvailableAutos(db) == {a \in db : a.status = TRUE}

show_all_auto(db, nid, role) ==
    IF ~show_all_auto_current_user(role) THEN Raise(403, db, nid)
    ELSE Result(200, AvailableAutos(db), db, nid)

(***************************************************************************)
(* GET /autos/search                                                       *)
(***************************************************************************)
search_auto_current_user(role) == owner_or_customer_required(role)

\* jahr: Optional[int] = Query(None, ge=2000, le=datetime.now().year)
search_auto_invalid(flt) == \E j \in flt.jahr : j < JahrMin \/ j > JahrMax

\* The filters of the query: each one is added only if its value is truthy
\* (brand, model, jahr) or not None (status).
SearchFilter(a, flt) ==
    /\ \A b \in flt.brand : b # <<>> => ILikeContains(a.brand, b)
    /\ \A m \in flt.model : m # <<>> => ILikeContains(a.model, m)
    /\ \A j \in flt.jahr : j # 0 => a.jahr = j
    /\ \A st \in flt.status : a.status = st

SearchQuery(db, flt) == {a \in db : SearchFilter(a, flt)}

search_auto(db, nid, role, flt) ==
    IF ~search_auto_current_user(role) THEN Raise(403, db, nid)
    ELSE IF search_auto_invalid(flt) THEN Raise(422, db, nid)
    ELSE LET result == SearchQuery(db, flt)
         IN IF result = {} THEN Raise(404, db, nid)
            ELSE Result(200, result, db, nid)

(***************************************************************************)
(* GET /autos/{auto_id}                                                    *)
(***************************************************************************)
show_auto_current_user(role) == owner_required(role)

show_auto(db, nid, role, auto_id) ==
    IF ~show_auto_current_user(role) THEN Raise(403, db, nid)
    ELSE LET auto_details == Find(db, auto_id)
         IN IF auto_details = {} THEN Raise(404, db, nid)
            ELSE Result(200, auto_details, db, nid)

(***************************************************************************)
(* PUT /autos/{auto_id}                                                    *)
(***************************************************************************)
update_auto_current_user(role) == owner_required(role)

\* Variant: the comparison written < instead of <=.
update_auto_negative_price(preis) == preis < 0

\* if auto_update.preis_pro_stunde <= 0
update_auto_invalid_price(preis) == preis <= 0

Columns == {"brand", "model", "jahr", "preis_pro_stunde", "status"}

\* Variant: an upsert with defaults, status reset to available when the input
\* leaves it out.
SetAttributes_defaults(auto, auto_update) ==
    [f \in DOMAIN auto |->
        IF f \in Columns /\ auto_update[f] # {}
        THEN CHOOSE v \in auto_update[f] : TRUE
        ELSE IF f = "status" THEN TRUE ELSE auto[f]]

\* The assignments to the loaded object: a field of the input that is not
\* None overwrites the attribute.
SetAttributes(auto, auto_update) ==
    [f \in DOMAIN auto |->
        IF f \in Columns /\ auto_update[f] # {}
        THEN CHOOSE v \in auto_update[f] : TRUE
        ELSE auto[f]]

\* The first part of the handler, up to db.commit(): the row as loaded and
\* the object with its attributes set, or the error raised.
update_auto_load(db, role, auto_id, auto_update) ==
    IF ~update_auto_current_user(role)
    THEN [code |-> 403, auto |-> {}, obj |-> {}]
    ELSE LET auto == Find(db, auto_id)
         IN IF auto = {} THEN [code |-> 404, auto |-> {}, obj |-> {}]
            ELSE IF \E p \in auto_update.preis_pro_stunde : update_auto_invalid_price(p)
            THEN [code |-> 400, auto |-> {}, obj |-> {}]
            ELSE [code |-> 200, auto |-> auto,
                  obj |-> {SetAttributes(a, auto_update) : a \in auto}]

\* Session.commit(): the unit of work writes, of the object's columns, those
\* whose value differs from the value loaded (UPDATE ... SET <changed columns>
\* WHERE id = ...); a column set to the value it was loaded with is not written.
Flush(db, loaded, obj) ==
    {IF row.id = obj.id
     THEN [f \in DOMAIN row |-> IF obj[f] # loaded[f] THEN obj[f] ELSE row[f]]
     ELSE row : row \in db}

\* db.commit(); db.refresh(auto); return auto.  The row is gone (deleted by
\* another request since it was loaded): the commit or the refresh raises.
update_auto_commit(db, nid, loaded, obj) ==
    IF Find(db, obj.id) = {} THEN Raise(500, db, nid)
    ELSE LET db2 == Flush(db, loaded, obj)
         IN Result(200, Find(db2, obj.id), db2, nid)

\* The whole handler served without interruption.
update_auto(db, nid, role, auto_id, auto_update) ==
    LET l == update_auto_load(db, role, auto_id, auto_update)
    IN IF l.code # 200 THEN Raise(l.code, db, nid)
       ELSE update_auto_commit(db, nid, CHOOSE a \in l.auto : TRUE, CHOOSE o \in l.obj : TRUE)

(***************************************************************************)
(* POST /autos/{auto_id}/calculate-price                                   *)
(***************************************************************************)
calculate_total_price_current_user(role) == owner_or_customer_required(role)

\* auto_id: int = Path(..., gt=0); mietdauer_stunden: int = Query(..., gt=0)
calculate_total_price_invalid(auto_id, mietdauer_stunden) ==
    ~(auto_id > 0) \/ ~(mietdauer_stunden > 0)

\* Variant: the sum instead of the product.
total_price_sum(auto, mietdauer_stunden) == auto.preis_pro_stunde + mietdauer_stunden

total_price(auto, mietdauer_stunden) == auto.preis_pro_stunde * mietdauer_stunden

\* Variant: the handler marks the vehicle unavailable once it has priced it.
calculate_total_price_reserving(db, nid, role, auto_id, mietdauer_stunden) ==
    IF ~calculate_total_price_current_user(role) THEN Raise(403, db, nid)
    ELSE IF calculate_total_price_invalid(auto_id, mietdauer_stunden) THEN Raise(422, db, nid)
    ELSE LET found == Find(db, auto_id)
         IN IF found = {} THEN Raise(404, db, nid)
            ELSE LET auto == CHOOSE a \in found : TRUE
                 IN IF ~auto.status THEN Raise(400, db, nid)
                    ELSE Result(200,
                                {[auto_id |-> auto_id,
                                  rental_duration_hours |-> mietdauer_stunden,
                                  price_per_hour |-> auto.preis_pro_stunde,
                                  total_price |-> total_price(auto, mietdauer_stunden)]},
                                (db \ found) \cup {[auto EXCEPT !.status = FALSE]}, nid)

calculate_total_price(db, nid, role, auto_id, mietdauer_stunden) ==
    IF ~calculate_total_price_current_user(role) THEN Raise(403, db, nid)
    ELSE IF calculate_total_price_invalid(auto_id, mietdauer_stunden) THEN Raise(422, db, nid)
    ELSE LET found == Find(db, auto_id)
         IN IF found = {} THEN Raise(404, db, nid)
            ELSE LET auto == CHOOSE a \in found : TRUE
                 IN IF ~auto.status THEN Raise(400, db, nid)
                    ELSE Result(200,
                                {[auto_id |-> auto_id,
                                  rental_duration_hours |-> mietdauer_stunden,
                                  price_per_hour |-> auto.preis_pro_stunde,
                                  total_price |-> total_price(auto, mietdauer_stunden)]},
                                db, nid)

(***************************************************************************)
(* DELETE /autos/{auto_id}                                                 *)
(***************************************************************************)
\* Variant: the delete route declared with the search route's dependency.
delete_auto_current_user_customer(role) == owner_or_customer_required(role)

delete_auto_current_user(role) == owner_required(role)

\* Variant: the delete issued on the whole query instead of the row.
DeleteRow_all(db, auto) == {}

\* db.delete(auto); db.commit()
DeleteRow(db, auto) == db \ auto

delete_auto(db, nid, role, auto_id) ==
    IF ~delete_auto_current_user(role) THEN Raise(403, db, nid)
    ELSE LET auto == Find(db, auto_id)
         IN IF auto = {} THEN Raise(404, db, nid)
            ELSE Result(204, {}, DeleteRow(db, auto), nid)

(***************************************************************************)
(* Requests, responses and sessions                                        *)
(***************************************************************************)
Opt(S) == {{}} \cup {{v} : v \in S}

NoUpdate == [brand |-> {}, model |-> {}, jahr |-> {}, preis_pro_stunde |-> {}, status |-> {}]

NoFilter == [brand |-> {}, model |-> {}, jahr |-> {}, status |-> {}]

\* A request: the operation, the role the identity provider resolved, and the
\* operation's inputs (the others at their defaults).
Request(op, role, auto_id, h, auto, upd, flt) ==
    [op |-> op, role |-> role, id |-> auto_id, h |-> h, auto |-> auto, upd |-> upd, flt |-> flt]

Response(res) == [code |-> res.code, body |-> res.body]

IdleSession == [pc |-> "idle", role |-> "owner", id |-> 0, upd |-> NoUpdate,
                auto |-> {}, obj |-> {}, code |-> 0, seen |-> {}]

Init ==
    /\ autos = {}
    /\ nextId = 1
    /\ req = Request("none", "guest", 0, 0, {}, NoUpdate, NoFilter)
    /\ resp = [code |-> 0, body |-> {}]
    /\ sess = [s \in Sessions |-> IdleSession]
    /\ commits = <<>>

\* One request served from start to end: its commit (if any) and its response.
Serve(r, res) ==
    /\ autos' = res.autos
    /\ nextId' = res.nextId
    /\ req' = r
    /\ resp' = Response(res)
    /\ UNCHANGED <<sess, commits>>

CreateAuto(role, auto) ==
    LET res == create_auto(autos, nextId, role, auto)
    IN /\ res.nextId <= MaxId + 1
       /\ Serve(Request("create", role, 0, 0, {auto}, NoUpdate, NoFilter), res)

ShowAllAuto(role) ==
    Serve(Request("list", role, 0, 0, {}, NoUpdate, NoFilter), show_all_auto(autos, nextId, role))

SearchAuto(role, flt) ==
    Serve(Request("search", role, 0, 0, {}, NoUpdate, flt), search_auto(autos, nextId, role, flt))

ShowAuto(role, auto_id) ==
    Serve(Request("get", role, auto_id, 0, {}, NoUpdate, NoFilter),
          show_auto(autos, nextId, role, auto_id))

UpdateAuto(role, auto_id, upd) ==
    Serve(Request("update", role, auto_id, 0, {}, upd, NoFilter),
          update_auto(autos, nextId, role, auto_id, upd))

CalculateTotalPrice(role, auto_id, h) ==
    Serve(Request("calculate", role, auto_id, h, {}, NoUpdate, NoFilter),
          calculate_total_price(autos, nextId, role, auto_id, h))

DeleteAuto(role, auto_id) ==
    Serve(Request("delete", role, auto_id, 0, {}, NoUpdate, NoFilter),
          delete_auto(autos, nextId, role, auto_id))

\* An update request in two steps, as two requests in flight interleave: the
\* handler up to db.commit() in its own session (the row loaded, the input
\* validated, the attributes set), then the commit and the response.
UpdateAutoBegin(s, role, auto_id, upd) ==
    /\ sess[s].pc = "idle"
    /\ LET l == update_auto_load(autos, role, auto_id, upd)
       IN IF l.code # 200
          THEN /\ sess' = [sess EXCEPT ![s] = [IdleSession EXCEPT
                              !.pc = "done", !.role = role, !.id = auto_id,
                              !.upd = upd, !.code = l.code]]
               /\ req' = Request("update", role, auto_id, 0, {}, upd, NoFilter)
               /\ resp' = [code |-> l.code, body |-> {}]
          ELSE /\ sess' = [sess EXCEPT ![s] = [IdleSession EXCEPT
                              !.pc = "loaded", !.role = role, !.id = auto_id,
                              !.upd = upd, !.auto = l.auto, !.obj = l.obj,
                              !.seen = {t \in Sessions : sess[t].pc = "done"}]]
               /\ UNCHANGED <<req, resp>>
    /\ UNCHANGED <<autos, nextId, commits>>

UpdateAutoCommit(s) ==
    /\ sess[s].pc = "loaded"
    /\ LET loaded == CHOOSE a \in sess[s].auto : TRUE
           obj == CHOOSE o \in sess[s].obj : TRUE
           res == update_auto_commit(autos, nextId, loaded, obj)
       IN /\ autos' = res.autos
          /\ sess' = [sess EXCEPT ![s].pc = "done", ![s].code = res.code]
          /\ commits' = Append(commits, s)
          /\ req' = Request("update", sess[s].role, sess[s].id, 0, {}, sess[s].upd, NoFilter)
          /\ resp' = Response(res)
    /\ UNCHANGED nextId

(***************************************************************************)
(* Spec: every operation, every role, requests served one at a time.       *)
(***************************************************************************)
ApiAutos ==
    {[brand |-> <<"B", "M">>, model |-> <<"s">>, jahr |-> 2010, preis_pro_stunde |-> 30, status |-> TRUE],
     [brand |-> <<"a">>, model |-> <<"x">>, jahr |-> 2020, preis_pro_stunde |-> 35, status |-> FALSE],
     [brand |-> <<"a">>, model |-> <<"x">>, jahr |-> 2020, preis_pro_stunde |-> 0, status |-> TRUE]}

ApiUpdates ==
    {[NoUpdate EXCEPT !.preis_pro_stunde = {35}, !.status = {FALSE}],
     [NoUpdate EXCEPT !.brand = {<<"a">>}],
     [NoUpdate EXCEPT !.preis_pro_stunde = {0}, !.brand = {<<"a">>}]}

ApiFilters ==
    {NoFilter,
     [NoFilter EXCEPT !.brand = {<<"b">>}],
     [NoFilter EXCEPT !.status = {FALSE}],
     [NoFilter EXCEPT !.jahr = {1999}]}

ApiHours == {0, 2}

Next ==
    \/ \E role \in Roles, auto \in ApiAutos : CreateAuto(role, auto)
    \/ \E role \in Roles : ShowAllAuto(role)
    \/ \E role \in Roles, flt \in ApiFilters : SearchAuto(role, flt)
    \/ \E role \in Roles, auto_id \in ReqIds : ShowAuto(role, auto_id)
    \/ \E role \in Roles, auto_id \in ReqIds, upd \in ApiUpdates : UpdateAuto(role, auto_id, upd)
    \/ \E role \in Roles, auto_id \in ReqIds, h \in ApiHours : CalculateTotalPrice(role, auto_id, h)
    \/ \E role \in Roles, auto_id \in ReqIds : DeleteAuto(role, auto_id)

Spec == Init /\ [][Next]_vars


(***************************************************************************)
(* SpecCrud: the owner's create, update and delete, with updates of        *)
(* several shapes (no field, one field, two, all; valid and invalid        *)
(* price).                                                                 *)
(***************************************************************************)
CrudAutos ==
    {[brand |-> <<"B", "M">>, model |-> <<"s">>, jahr |-> 2010, preis_pro_stunde |-> p, status |-> TRUE]
        : p \in {30, 0, -5}}

CrudUpdates ==
    {NoUpdate,
     [NoUpdate EXCEPT !.status = {FALSE}],
     [NoUpdate EXCEPT !.status = {TRUE}],
     [NoUpdate EXCEPT !.brand = {<<"a">>}],
     [NoUpdate EXCEPT !.preis_pro_stunde = {35}],
     [NoUpdate EXCEPT !.preis_pro_stunde = {35}, !.status = {FALSE}],
     [brand |-> {<<"a">>}, model |-> {<<"x">>}, jahr |-> {2020}, preis_pro_stunde |-> {35}, status |-> {FALSE}],
     [NoUpdate EXCEPT !.preis_pro_stunde = {0}],
     [NoUpdate EXCEPT !.preis_pro_stunde = {0}, !.brand = {<<"a">>}, !.status = {FALSE}],
     [brand |-> {<<"a">>}, model |-> {<<"x">>}, jahr |-> {2020}, preis_pro_stunde |-> {-5}, status |-> {FALSE}]}

CrudIds == 1..(MaxId + 1)

NextCrud ==
    \/ \E auto \in CrudAutos : CreateAuto("owner", auto)
    \/ \E auto_id \in CrudIds, upd \in CrudUpdates : UpdateAuto("owner", auto_id, upd)
    \/ \E auto_id \in CrudIds : DeleteAuto("owner", auto_id)

SpecCrud == Init /\ [][NextCrud]_vars

(***************************************************************************)
(* SpecQuery: list, search with every combination of filters, and price    *)
(* calculation, by the roles allowed to search, over stores the owner      *)
(* fills.                                                                  *)
(***************************************************************************)
QueryAutos ==
    {[brand |-> <<"B", "M">>, model |-> <<"s">>, jahr |-> 2010, preis_pro_stunde |-> 30, status |-> TRUE],
     [brand |-> <<"a">>, model |-> <<"x">>, jahr |-> 2020, preis_pro_stunde |-> 35, status |-> FALSE],
     [brand |-> <<"B", "M">>, model |-> <<"x">>, jahr |-> 2010, preis_pro_stunde |-> 35, status |-> FALSE]}

QueryFilters ==
    [brand : Opt({<<>>, <<"b">>, <<"M">>, <<"_">>}),
     model : Opt({<<"S">>}),
     jahr : Opt({2010, 1999}),
     status : Opt(BOOLEAN)]

QueryHours == {-5, 0, 1, 5}

NextQuery ==
    \/ \E auto \in QueryAutos : CreateAuto("owner", auto)
    \/ ShowAllAuto("owner")
    \/ \E role \in {"owner", "customer"}, flt \in QueryFilters : SearchAuto(role, flt)
    \/ \E role \in {"owner", "customer"}, auto_id \in ReqIds, h \in QueryHours :
            CalculateTotalPrice(role, auto_id, h)

SpecQuery == Init /\ [][NextQuery]_vars

(***************************************************************************)
(* SpecConc: two update requests of the owner in flight at once, each in   *)
(* its own session, beside creates and deletes.                            *)
(***************************************************************************)
ConcAutos ==
    {[brand |-> <<"B", "M">>, model |-> <<"s">>, jahr |-> 2010, preis_pro_stunde |-> 30, status |-> TRUE]}

ConcUpdates ==
    {[NoUpdate EXCEPT !.brand = {<<"a">>}],
     [NoUpdate EXCEPT !.brand = {<<"B", "M">>}],
     [NoUpdate EXCEPT !.status = {FALSE}],
     [NoUpdate EXCEPT !.brand = {<<"a">>}, !.preis_pro_stunde = {35}],
     [NoUpdate EXCEPT !.preis_pro_stunde = {0}]}

NextConc ==
    \/ \E auto \in ConcAutos : CreateAuto("owner", auto)
    \/ \E s \in Sessions, auto_id \in CrudIds, upd \in ConcUpdates :
            UpdateAutoBegin(s, "owner", auto_id, upd)
    \/ \E s \in Sessions : UpdateAutoCommit(s)
    \/ \E auto_id \in CrudIds : DeleteAuto("owner", auto_id)

SpecConc == Init /\ [][NextConc]_vars

(***************************************************************************)
(* Properties                                                              *)
(***************************************************************************)
\* The authorization table of the specification (4.1).
AllowedRoles(op) ==
    CASE op \in {"create", "list", "get", "update", "delete"} -> {"owner"}
      [] op \in {"search", "calculate"} -> {"owner", "customer"}
      [] OTHER -> {}

\* C1: every request is answered 403 exactly when its role is not in the
\* operation's allowed set, whether or not the id it names exists, and a
\* request answered 403 leaves the store as it was.
C1_ForbiddenIffRoleNotAllowed ==
    [][/\ resp'.code = 403 <=> req'.role \notin AllowedRoles(req'.op)
       /\ resp'.code = 403 => autos' = autos /\ nextId' = nextId]_vars

\* C1 witness: a guest's delete of an id no vehicle has, answered 403 while
\* vehicles are stored.
C1_Witness ==
    /\ req.op = "delete" /\ req.role = "guest"
    /\ autos # {} /\ Find(autos, req.id) = {}
    /\ resp.code = 403

\* C3: every stored vehicle has a price per hour greater than zero.
C3_StoredPricePositive == \A a \in autos : a.preis_pro_stunde > 0

\* C3 witness: a vehicle whose price a successful update has just replaced,
\* beside another stored vehicle.
C3_Witness ==
    /\ req.op = "update" /\ resp.code = 200 /\ req.upd.preis_pro_stunde # {}
    /\ \E a \in autos : a.id = req.id /\ a.preis_pro_stunde \in req.upd.preis_pro_stunde
    /\ Cardinality(autos) = 2

\* C7: an owner's delete of an id no vehicle has is answered 404 and changes
\* nothing; otherwise it removes that row and no other and is answered 204.
\* An id once removed never has a row again: get, update, delete and
\* calculate-price on it are answered 404, and every row of a list or search
\* result is a stored row.
C7_DeleteIsPermanent ==
    [][/\ (req'.op = "delete" /\ req'.role = "owner") =>
            IF Find(autos, req'.id) = {}
            THEN resp'.code = 404 /\ autos' = autos
            ELSE resp'.code = 204 /\ autos' = autos \ Find(autos, req'.id)
       /\ \A i \in 1..(nextId - 1) : Find(autos, i) = {} => Find(autos', i) = {}
       /\ \A i \in 1..(nextId - 1) :
            (Find(autos, i) = {} /\ req'.id = i) =>
                /\ (req'.op \in {"get", "update", "delete"} /\ req'.role = "owner")
                        => resp'.code = 404
                /\ (req'.op = "calculate" /\ req'.role \in {"owner", "customer"} /\ req'.h > 0)
                        => resp'.code = 404
       /\ (req'.op \in {"list", "search"} /\ resp'.code = 200) => resp'.body \subseteq autos'
      ]_vars

\* C7 witness: calculate-price on an id whose vehicle was deleted, answered
\* 404 while another vehicle is stored.
C7_Witness ==
    /\ req.op = "calculate" /\ req.role = "customer" /\ req.h > 0
    /\ req.id \in 1..(nextId - 1) /\ Find(autos, req.id) = {}
    /\ autos # {}
    /\ resp.code = 404

\* C9: the status of an existing vehicle changes only in a step that is a
\* successful update of that vehicle whose input supplies status.
C9_StatusChangesOnlyByUpdate ==
    [][\A a \in autos : \A b \in autos' :
          (a.id = b.id /\ a.status # b.status) =>
              /\ req'.op = "update" /\ req'.id = a.id
              /\ resp'.code = 200
              /\ req'.upd.status # {}]_vars

\* C9 witness: a price was calculated for a vehicle, which is still available.
C9_Witness ==
    /\ req.op = "calculate" /\ resp.code = 200
    /\ \E a \in autos : a.id = req.id /\ a.status = TRUE

\* C2: an owner's create whose price is <= 0, and an owner's update of a
\* stored vehicle whose input supplies a price <= 0, are answered 400 and
\* leave the store as it was (no row inserted, no field of the row changed).
C2_InvalidPriceRejected ==
    [][/\ (req'.op = "create" /\ req'.role = "owner"
            /\ \E a \in req'.auto : a.preis_pro_stunde <= 0)
          => (resp'.code = 400 /\ autos' = autos /\ nextId' = nextId)
       /\ (req'.op = "update" /\ req'.role = "owner" /\ Find(autos, req'.id) # {}
            /\ \E p \in req'.upd.preis_pro_stunde : p <= 0)
          => (resp'.code = 400 /\ autos' = autos /\ nextId' = nextId)
      ]_vars

\* C2 witness: an update answered 400 whose input also supplied a brand and a
\* status that differ from the stored ones.
C2_Witness ==
    /\ req.op = "update" /\ resp.code = 400
    /\ \E a \in autos :
          /\ a.id = req.id
          /\ req.upd.brand # {} /\ a.brand \notin req.upd.brand
          /\ req.upd.status # {} /\ a.status \notin req.upd.status

\* C6: after a successful update the row has, for each field the input
\* supplies, the input's value, and for each field it leaves out the value
\* the row had; its id is the same, every other row is unchanged, and the
\* response is the updated row.
C6_PartialUpdate ==
    [][(req'.op = "update" /\ resp'.code = 200) =>
          /\ Cardinality(Find(autos, req'.id)) = 1
          /\ Cardinality(Find(autos', req'.id)) = 1
          /\ \A S \in Find(autos, req'.id) : \A T \in Find(autos', req'.id) :
                /\ T.id = S.id
                /\ \A f \in Columns :
                      IF req'.upd[f] # {} THEN T[f] \in req'.upd[f] ELSE T[f] = S[f]
          /\ {a \in autos' : a.id # req'.id} = {a \in autos : a.id # req'.id}
          /\ resp'.body = Find(autos', req'.id)
      ]_vars

\* C6 witness: an update of status alone, answered 200, on a vehicle whose
\* brand and price earlier updates had changed, beside another vehicle.
C6_Witness ==
    /\ req.op = "update" /\ resp.code = 200
    /\ req.upd = [NoUpdate EXCEPT !.status = {TRUE}]
    /\ Cardinality(autos) = 2
    /\ \E a \in autos :
          /\ a.id = req.id /\ a.status = TRUE
          /\ a.brand = <<"a">> /\ a.preis_pro_stunde = 35

\* The price calculation's response body for a vehicle and a duration.
PriceQuote(a, h) ==
    [auto_id |-> a.id, rental_duration_hours |-> h,
     price_per_hour |-> a.preis_pro_stunde, total_price |-> a.preis_pro_stunde * h]

\* C4 as stated: calculate-price by an allowed role is answered 422 if
\* h <= 0, otherwise 404 if no vehicle has the id, otherwise 400 if the
\* vehicle's status is false, otherwise 200 with the id, h, the unit price
\* and price_per_hour * h.
C4_AsStated ==
    [][(req'.op = "calculate" /\ req'.role \in {"owner", "customer"}) =>
          LET found == Find(autos, req'.id)
          IN IF req'.h <= 0 THEN resp'.code = 422
             ELSE IF found = {} THEN resp'.code = 404
             ELSE IF \E a \in found : a.status = FALSE THEN resp'.code = 400
             ELSE /\ resp'.code = 200
                  /\ resp'.body = {PriceQuote(a, req'.h) : a \in found}
      ]_vars

\* C4 amended: calculate-price by an allowed role is answered 422 if h <= 0
\* or the id is <= 0, otherwise 404 if no vehicle has the id, otherwise 400
\* if the vehicle's status is false, otherwise 200 with the id, h, the unit
\* price and price_per_hour * h; the store is unchanged in every case.
C4_CalculatePriceOutcome ==
    [][(req'.op = "calculate" /\ req'.role \in {"owner", "customer"}) =>
          LET found == Find(autos, req'.id)
          IN /\ autos' = autos /\ nextId' = nextId
             /\ IF req'.h <= 0 \/ req'.id <= 0 THEN resp'.code = 422
                ELSE IF found = {} THEN resp'.code = 404
                ELSE IF \E a \in found : a.status = FALSE THEN resp'.code = 400
                ELSE /\ resp'.code = 200
                     /\ resp'.body = {PriceQuote(a, req'.h) : a \in found}
      ]_vars

\* C4 witness: a customer's calculation over 5 hours for the vehicle priced
\* 30, answered 200 with total 150, while an unavailable vehicle is stored too.
C4_Witness ==
    /\ req.op = "calculate" /\ req.role = "customer" /\ req.h = 5
    /\ resp.code = 200
    /\ \E q \in resp.body : q.total_price = 150 /\ q.price_per_hour = 30 /\ q.auto_id = req.id
    /\ \E a \in autos : a.status = FALSE

\* The text t occurs in the column value, case ignored.
ContainsIgnoreCase(col, t) ==
    \E i \in 1..(Len(col) - Len(t) + 1) : SubSeq(Lower(col), i, i + Len(t) - 1) = Lower(t)

\* A vehicle satisfies every supplied filter: brand and model contain the
\* text, year and status are equal.
SatisfiesFilters(a, flt) ==
    /\ \A b \in flt.brand : ContainsIgnoreCase(a.brand, b)
    /\ \A m \in flt.model : ContainsIgnoreCase(a.model, m)
    /\ \A j \in flt.jahr : a.jahr = j
    /\ \A st \in flt.status : a.status = st

\* C5: a list request of the owner is answered 200 (with the empty list when
\* no vehicle is available); a valid search by an allowed role whose filters
\* no stored vehicle satisfies is answered 404.
C5_EmptyResultAsymmetry ==
    [][/\ (req'.op = "list" /\ req'.role = "owner") =>
            /\ resp'.code = 200
            /\ ({a \in autos : a.status = TRUE} = {} => resp'.body = {})
       /\ (req'.op = "search" /\ req'.role \in {"owner", "customer"}
            /\ \A j \in req'.flt.jahr : j >= JahrMin /\ j <= JahrMax)
            => ({a \in autos : SatisfiesFilters(a, req'.flt)} = {} => resp'.code = 404)
      ]_vars

\* C8: a successful search returns exactly the stored vehicles that satisfy
\* all supplied filters.
C8_SearchReturnsExactlyMatches ==
    [][(req'.op = "search" /\ resp'.code = 200) =>
          resp'.body = {a \in autos : SatisfiesFilters(a, req'.flt)}
      ]_vars

\* C10: two update requests on the same id, each having loaded the row before
\* the other committed, both answered 200, leave the row with, per column,
\* the value of the later committer if it supplied one, else that of the
\* earlier committer if it supplied one, else the value before both.
C10_LastWriterWins ==
    \A s \in Sessions : \A t \in Sessions :
        (/\ s # t
         /\ sess[s].pc = "done" /\ sess[t].pc = "done"
         /\ sess[s].auto # {} /\ sess[t].auto # {}
         /\ sess[s].id = sess[t].id
         /\ t \notin sess[s].seen /\ s \notin sess[t].seen
         /\ \E i \in 1..Len(commits) : \E j \in 1..Len(commits) :
                i < j /\ commits[i] = s /\ commits[j] = t
         /\ Find(autos, sess[s].id) # {})
        => /\ sess[s].code = 200 /\ sess[t].code = 200
           /\ \A prior \in sess[s].auto : \A r \in Find(autos, sess[s].id) :
                \A f \in Columns :
                    IF sess[t].upd[f] # {} THEN r[f] \in sess[t].upd[f]
                    ELSE IF sess[s].upd[f] # {} THEN r[f] \in sess[s].upd[f]
                    ELSE r[f] = prior[f]

====
